---- MODULE Spec2Model ----
(***************************************************************************)
(* A model of the number-theory layer and the generic Fraction of the      *)
(* algebra library: the extended Euclidean algorithm (algebra/nt/egcd.py), *)
(* the linear Diophantine solver (algebra/nt/diaphontine.py) and gcd and   *)
(* Fraction (algebra/fraction.py and src/algebra/fraction.py), Rational    *)
(* (algebra/nt/rational.py) and IntPoly (algebra/nt/intpoly.py).           *)
(*                                                                         *)
(* Several machines share the module.  Each has its own specification and *)
(* keeps the variables of the others at their idle values:                 *)
(*   SpecEgcd  solve_linear(a, b, c) and the egcd loop it calls            *)
(*   SpecGcd   the variadic gcd of the two fraction modules                *)
(*   SpecFrac  comparisons of Fractions with integer fields                *)
(*   SpecOps   one method call on a Fraction: simplify, hash, arithmetic    *)
(*   SpecProd  Product.__add__                                             *)
(*   SpecBgcd  the binary gcd variants _ibgcd and _rbgcd                   *)
(*   SpecBgcdFair  the same, with a running call never suspended           *)
(*   SpecRat   r == s, hash(r) and hash(s) for two Rationals               *)
(*   SpecPoly  IntPolys built from a sequence and from its zero-padding    *)
(***************************************************************************)
EXTENDS Integers, Sequences, FiniteSets, TLC

VARIABLES
    pc,        \* position in solve_linear / egcd
    a, b, c,   \* the arguments of solve_linear(a, b, c); egcd gets a, b
    u, v,      \* egcd's triples (u, u1, u2) and (v, v1, v2)
    dxy,       \* the triple egcd returned to its caller
    ret,       \* what solve_linear returned or raised
    gpc,       \* position in the variadic gcd
    module,    \* which fraction module's gcd runs
    values,    \* the operands of gcd
    g, i,      \* the fold's accumulator and the index of the next operand
    gret,      \* what gcd returned or raised
    fpc,       \* position of the Fraction comparisons
    f1, f2, f3, \* three Fractions
    eq,        \* the results of the comparisons
    opc,       \* position of the method call on a Fraction
    omodule,   \* which fraction module's Fraction is used
    self,      \* the Fraction the method is called on
    other,     \* the other operand of a binary method
    op,        \* the method that was called
    ores,      \* what the method returned or raised
    ppc,       \* position of the call of Product.__add__
    prod, rhs, \* the Product's tuple and the other operand
    pres,      \* what Product.__add__ returned
    bpc,       \* position in _ibgcd / _rbgcd
    bfun,      \* which of the two runs
    ba, bb,    \* the arguments a, b of the call
    ca, cb,    \* the current values of the locals a, b
    sa, sb,    \* the 2-adic valuations taken on entry
    bret,      \* what the binary gcd returned or raised
    rpc,       \* position of the calls on the two Rationals
    rat1, rat2, \* two Rationals
    req,       \* the result of rat1 == rat2
    rhashes,   \* the pair hash(rat1), hash(rat2)
    qpc,       \* position of the IntPoly constructions
    coefficients, \* the arguments of the first IntPoly(...)
    padded,    \* the same arguments followed by zeros
    poly, padpoly, \* the IntPolys built from the two sequences
    cmp        \* their comparison: ==, the degrees, the hashes

egcdVars == <<pc, a, b, c, u, v, dxy, ret>>
gcdVars == <<gpc, module, values, g, i, gret>>
fracVars == <<fpc, f1, f2, f3, eq>>
opsVars == <<opc, omodule, self, other, op, ores>>
prodVars == <<ppc, prod, rhs, pres>>
bgcdVars == <<bpc, bfun, ba, bb, ca, cb, sa, sb, bret>>
ratVars == <<rpc, rat1, rat2, req, rhashes>>
polyVars == <<qpc, coefficients, padded, poly, padpoly, cmp>>
vars == <<pc, a, b, c, u, v, dxy, ret, gpc, module, values, g, i, gret,
          fpc, f1, f2, f3, eq, opc, omodule, self, other, op, ores,
          ppc, prod, rhs, pres, bpc, bfun, ba, bb, ca, cb, sa, sb, bret,
          rpc, rat1, rat2, req, rhashes,
          qpc, coefficients, padded, poly, padpoly, cmp>>
notEgcdVars ==
    <<gcdVars, fracVars, opsVars, prodVars, bgcdVars, ratVars, polyVars>>
notGcdVars ==
    <<egcdVars, fracVars, opsVars, prodVars, bgcdVars, ratVars, polyVars>>
notFracVars ==
    <<egcdVars, gcdVars, opsVars, prodVars, bgcdVars, ratVars, polyVars>>
notOpsVars ==
    <<egcdVars, gcdVars, fracVars, prodVars, bgcdVars, ratVars, polyVars>>
notProdVars ==
    <<egcdVars, gcdVars, fracVars, opsVars, bgcdVars, ratVars, polyVars>>
notBgcdVars ==
    <<egcdVars, gcdVars, fracVars, opsVars, prodVars, ratVars, polyVars>>
notRatVars ==
    <<egcdVars, gcdVars, fracVars, opsVars, prodVars, bgcdVars, polyVars>>
notPolyVars ==
    <<egcdVars, gcdVars, fracVars, opsVars, prodVars, bgcdVars, ratVars>>

\* Bounds of the model: integers are drawn from -MaxInt..MaxInt, gcd gets
\* at most MaxArgs operands, Fraction fields are in -MaxField..MaxField,
\* the integer elements of a Product are in 0..MaxElem and a Product has
\* at most MaxLen elements, the binary gcd variants get arguments in
\* -MaxBin..MaxBin, the coefficients given to IntPoly are in
\* -MaxCoeff..MaxCoeff, at most MaxTerms of them, followed by at most
\* MaxPad further zeros.
MaxInt == 4
MaxArgs == 3
MaxField == 2
MaxElem == 1
MaxLen == 2
MaxBin == 12
MaxCoeff == 1
MaxTerms == 3
MaxPad == 2

Ints == (0 - MaxInt)..MaxInt
Fields == (0 - MaxField)..MaxField
BinInts == (0 - MaxBin)..MaxBin
Coeffs == (0 - MaxCoeff)..MaxCoeff

Abs(x) == IF x < 0 THEN 0 - x ELSE x

(***************************************************************************)
(* Python's integer division.  x // y rounds towards minus infinity and    *)
(* x % y == x - y * (x // y) has the sign of y; both raise                 *)
(* ZeroDivisionError when y == 0, which the callers model.                 *)
(***************************************************************************)
PyFloorDiv(x, y) ==
    IF y > 0 THEN x \div y ELSE (0 - x) \div (0 - y)

PyMod(x, y) == x - y * PyFloorDiv(x, y)

\* divmod(x, y) == (x // y, x % y)
PyDivmod(x, y) == <<PyFloorDiv(x, y), PyMod(x, y)>>

\* Results of a call: a value, or an exception that was raised.
Returned(x) == [exc |-> "none", val |-> x]
Raised(e) == [exc |-> e, val |-> 0]

(***************************************************************************)
(* egcd, algebra/nt/egcd.py                                                *)
(***************************************************************************)
\* One iteration of the loop (lines 20-26) on the pair of triples.
EgcdBodyWrongCoefficient(uu, vv) ==
    LET qr == PyDivmod(uu[1], vv[1])
        q == qr[1]
        r == qr[2]
    IN  <<vv, <<r, uu[2] - q * vv[2], uu[3] - q * vv[2]>> >>

\* The same iteration with a quotient rounded towards zero.
EgcdBodyTruncating(uu, vv) ==
    LET q == IF (uu[1] < 0) = (vv[1] < 0)
             THEN Abs(uu[1]) \div Abs(vv[1])
             ELSE 0 - (Abs(uu[1]) \div Abs(vv[1]))
        r == uu[1] - q * vv[1]
    IN  <<vv, <<r, uu[2] - q * vv[2], uu[3] - q * vv[3]>> >>

EgcdBody(uu, vv) ==
    LET qr == PyDivmod(uu[1], vv[1])
        q == qr[1]
        r == qr[2]
    IN  <<vv, <<r, uu[2] - q * vv[2], uu[3] - q * vv[3]>> >>

\* The loop of lines 19-26 run to its end, and the return of line 29.
RECURSIVE EgcdLoop(_, _)
EgcdLoop(uu, vv) ==
    IF vv[1] # 0
    THEN LET n == EgcdBody(uu, vv) IN EgcdLoop(n[1], n[2])
    ELSE uu

egcd(x, y) == EgcdLoop(<<x, 1, 0>>, <<y, 0, 1>>)

\* _igcd: while b != 0: a, b = b, a % b; return a
RECURSIVE igcd(_, _)
igcd(m, n) ==
    IF n # 0 THEN igcd(n, PyMod(m, n)) ELSE m

(***************************************************************************)
(* The binary gcd variants _rbgcd and _ibgcd, algebra/nt/egcd.py           *)
(***************************************************************************)
Min(m, n) == IF m < n THEN m ELSE n

RECURSIVE Pow2(_)
Pow2(k) == IF k = 0 THEN 1 ELSE 2 * Pow2(k - 1)

\* n >> k and n << k for k >= 0; >> rounds towards minus infinity
PyShr(n, k) == PyFloorDiv(n, Pow2(k))
PyShl(n, k) == n * Pow2(k)

\* The number of trailing zero bits of m > 0
RECURSIVE TrailingZeros(_)
TrailingZeros(m) ==
    IF m % 2 = 1 THEN 0 ELSE 1 + TrailingZeros(m \div 2)

\* v2(n) == (n & -n).bit_length() - 1: n & -n is the lowest set bit of n,
\* also for negative n, and 0 for n == 0
v2(n) == IF n = 0 THEN 0 - 1 ELSE TrailingZeros(Abs(n))

\* The final shift with the larger of the two valuations.
BinaryGcdScaleMax(r, s1, s2) == PyShl(r, IF s1 < s2 THEN s2 ELSE s1)

\* r << min(sa, sb)
BinaryGcdScale(r, s1, s2) == PyShl(r, Min(s1, s2))

(***************************************************************************)
(* solve_linear, algebra/nt/diaphontine.py                                 *)
(***************************************************************************)
NoneValue == [kind |-> "None", x |-> 0, y |-> 0]
Pair(x, y) == [kind |-> "pair", x |-> x, y |-> y]
RaisedError(e) == [kind |-> e, x |-> 0, y |-> 0]

\* Lines 10-13, given the triple of line 9.
SolveLinearNoGuard(t, cc) ==
    IF t[1] = 0 THEN RaisedError("ZeroDivisionError")
    ELSE LET s == PyFloorDiv(cc, t[1]) IN Pair(t[2] * s, t[3] * s)

SolveLinearSwappedGuard(t, cc) ==
    IF t[1] = 0 \/ cc = 0 THEN RaisedError("ZeroDivisionError")
    ELSE IF PyMod(t[1], cc) # 0 THEN NoneValue
    ELSE LET s == PyFloorDiv(cc, t[1]) IN Pair(t[2] * s, t[3] * s)

SolveLinearTail(t, cc) ==
    IF t[1] = 0 THEN RaisedError("ZeroDivisionError")
    ELSE IF PyMod(cc, t[1]) # 0 THEN NoneValue
    ELSE LET s == PyFloorDiv(cc, t[1]) IN Pair(t[2] * s, t[3] * s)

solve_linear(x, y, z) == SolveLinearTail(egcd(x, y), z)

(***************************************************************************)
(* gcd, algebra/fraction.py and src/algebra/fraction.py                    *)
(***************************************************************************)
Modules == {"algebra/fraction.py", "src/algebra/fraction.py"}

\* The two-operand branch: while b: a, b = b, a % b; return a
RECURSIVE Gcd2Loop(_, _)
Gcd2Loop(x, y) ==
    IF y # 0 THEN Gcd2Loop(y, PyMod(x, y)) ELSE x

\* if not values: the older module raises, the newer one returns 0
GcdNoValuesAlwaysZero(m) == Returned(0)

GcdNoValues(m) ==
    IF m = "algebra/fraction.py" THEN Raised("ValueError") ELSE Returned(0)

\* for value in values[1:]: g = gcd(g, value)
RECURSIVE GcdFold(_, _)
GcdFold(acc, rest) ==
    IF rest = <<>> THEN acc
    ELSE GcdFold(Gcd2Loop(acc, Head(rest)), Tail(rest))

gcd(vals, m) ==
    IF vals = <<>> THEN GcdNoValues(m)
    ELSE IF Len(vals) = 2 THEN Returned(Gcd2Loop(vals[1], vals[2]))
    ELSE Returned(GcdFold(vals[1], Tail(vals)))

(***************************************************************************)
(* Fraction, src/algebra/fraction.py                                       *)
(***************************************************************************)
Fraction(n, d) == [numerator |-> n, denominator |-> d]

\* Fraction.__eq__ for an operand that has a numerator and a denominator
FractionEqNoNumeratorCheck(s, o) ==
    IF (s.denominator = 0) # (o.denominator = 0) THEN FALSE
    ELSE s.numerator * o.denominator = o.numerator * s.denominator

FractionEq(s, o) ==
    IF (s.denominator = 0) # (o.denominator = 0) THEN FALSE
    ELSE IF (s.numerator = 0) # (o.numerator = 0) THEN FALSE
    ELSE s.numerator * o.denominator = o.numerator * s.denominator

\* The operands of the binary methods.  A Fraction and an int both have
\* a numerator and a denominator (an int k has k and 1); a bare ring
\* element has neither, only its value, and its arithmetic with integers
\* is modelled by the arithmetic of that value.
FractionOperand(s) ==
    [kind |-> "Fraction", numerator |-> s.numerator,
     denominator |-> s.denominator, value |-> 0]
IntOperand(k) ==
    [kind |-> "int", numerator |-> k, denominator |-> 1, value |-> k]
BareOperand(k) ==
    [kind |-> "bare", numerator |-> 0, denominator |-> 0, value |-> k]

is_fraction(o) == o.kind # "bare"

\* -other: Fraction.__neg__ for a Fraction, the element's own negation else
NegOperand(o) ==
    [kind |-> o.kind, numerator |-> 0 - o.numerator,
     denominator |-> o.denominator, value |-> 0 - o.value]

\* What a method returned, or the exception it raised.
ReturnedFraction(s) == [exc |-> "none", val |-> s]
RaisedInFraction(e) == [exc |-> e, val |-> Fraction(0, 0)]

as_ratio(s) == <<s.numerator, s.denominator>>

\* Fraction.simplify; both modules have the same body and the same
\* two-operand gcd.
\* The same with the gcd taken as a non-negative number.
simplifyNoFloorDivision(s) ==
    LET gg == Gcd2Loop(s.numerator, s.denominator)
    IN  IF gg = 0 THEN s
        ELSE Fraction(s.numerator \div Abs(gg), s.denominator \div Abs(gg))

\* The same with only the numerator divided.
simplifyNumeratorOnly(s) ==
    LET gg == Gcd2Loop(s.numerator, s.denominator)
    IN  IF gg = 0 THEN s
        ELSE Fraction(PyFloorDiv(s.numerator, gg), s.denominator)

simplify(s) ==
    LET gg == gcd(<<s.numerator, s.denominator>>,
                  "src/algebra/fraction.py").val
    IN  IF gg = 0 THEN s
        ELSE Fraction(PyFloorDiv(s.numerator, gg),
                      PyFloorDiv(s.denominator, gg))

\* hash of an int: the value itself, except that -1 hashes to -2
\* (the integers of the model are far below the hash modulus).
PyHashInt(n) == IF n = 0 - 1 THEN 0 - 2 ELSE n

\* hash of a tuple: a fixed function of the hashes of its elements
PyHashTuple(t) == [j \in DOMAIN t |-> PyHashInt(t[j])]

ReturnedHash(h) == [exc |-> "none", val |-> h]
RaisedInHash(e) == [exc |-> e, val |-> <<>>]

\* Fraction.__hash__: src/algebra/fraction.py hashes
\* simplify().as_ratio(); algebra/fraction.py calls as_integer_ratio(),
\* which Fraction does not have.
FractionHash(s, m) ==
    IF m = "algebra/fraction.py" THEN RaisedInHash("AttributeError")
    ELSE ReturnedHash(PyHashTuple(as_ratio(simplify(s))))

FractionNeg(s) == Fraction(0 - s.numerator, s.denominator)

FractionInvert(s) == Fraction(s.denominator, s.numerator)

\* Fraction.__add__: the branch for a bare element reads the misspelt
\* attribute self.numeratror, and AttributeError is not caught.
FractionAddSimplified(s, o) ==
    IF is_fraction(o)
    THEN ReturnedFraction(simplify(Fraction(s.numerator * o.denominator
                                            + o.numerator * s.denominator,
                                            s.denominator * o.denominator)))
    ELSE RaisedInFraction("AttributeError")

FractionAdd(s, o) ==
    IF is_fraction(o)
    THEN ReturnedFraction(Fraction(s.numerator * o.denominator
                                   + o.numerator * s.denominator,
                                   s.denominator * o.denominator))
    ELSE RaisedInFraction("AttributeError")

FractionRadd(s, o) ==
    IF is_fraction(o)
    THEN ReturnedFraction(Fraction(o.numerator * s.denominator
                                   + s.numerator * o.denominator,
                                   o.denominator * s.denominator))
    ELSE ReturnedFraction(Fraction(o.value * s.denominator + s.numerator,
                                   s.denominator))

FractionMul(s, o) ==
    IF is_fraction(o)
    THEN ReturnedFraction(Fraction(s.numerator * o.numerator,
                                   s.denominator * o.denominator))
    ELSE ReturnedFraction(Fraction(s.numerator * o.value, s.denominator))

\* self + -other
FractionSub(s, o) == FractionAdd(s, NegOperand(o))

\* ~self * other, without the outer inversion
FractionTruedivNotInverted(s, o) ==
    ReturnedFraction(FractionMul(FractionInvert(s), o).val)

\* ~(~self * other)
FractionTruediv(s, o) ==
    ReturnedFraction(FractionInvert(FractionMul(FractionInvert(s), o).val))

(***************************************************************************)
(* Product, src/algebra/product.py                                         *)
(***************************************************************************)
\* The elements of a Product: ints and strings, a string being the
\* sequence of its characters.
IntElem(n) == [t |-> "int", n |-> n, s |-> <<>>]
StrElem(sq) == [t |-> "str", n |-> 0, s |-> sq]

\* s + o of two elements: int + int, str + str; int + str and str + int
\* raise TypeError.
ElemAddable(e1, e2) == e1.t = e2.t
ElemAdd(e1, e2) ==
    IF e1.t = "int" THEN IntElem(e1.n + e2.n) ELSE StrElem(e1.s \o e2.s)

\* Product(*things); a tuple that is not a Product; a value without
\* __len__; the NotImplemented singleton.
Product(things) == [kind |-> "Product", tuple |-> things]
PlainTuple(things) == [kind |-> "tuple", tuple |-> things]
NoLength == [kind |-> "nolen", tuple |-> <<>>]
NotImplemented == [kind |-> "NotImplemented", tuple |-> <<>>]

\* Product.__len__
ProductLen(pr) == Len(pr.tuple)

\* Product.__eq__; NotImplemented for an operand that is no Product makes
\* the comparison false.
ProductEq(pr, o) == o.kind = "Product" /\ pr.tuple = o.tuple

\* The elements added in the order o + s, as __radd__ does.
ProductAddReflected(pr, o) ==
    IF o.kind = "nolen" \/ Len(o.tuple) # ProductLen(pr) THEN NotImplemented
    ELSE IF \E j \in 1..ProductLen(pr) : ~ElemAddable(pr.tuple[j], o.tuple[j])
    THEN NotImplemented
    ELSE Product([j \in 1..ProductLen(pr) |->
                     ElemAdd(o.tuple[j], pr.tuple[j])])

\* Product.__add__
ProductAdd(pr, o) ==
    IF o.kind = "nolen" \/ Len(o.tuple) # ProductLen(pr) THEN NotImplemented
    ELSE IF \E j \in 1..ProductLen(pr) : ~ElemAddable(pr.tuple[j], o.tuple[j])
    THEN NotImplemented
    ELSE Product([j \in 1..ProductLen(pr) |->
                     ElemAdd(pr.tuple[j], o.tuple[j])])

(***************************************************************************)
(* Rational, src/algebra/nt/rational.py                                    *)
(***************************************************************************)
Rational(n, d) == [numerator |-> n, denominator |-> d]

\* math.gcd, which rational.py imports: the greatest common divisor of
\* the absolute values, never negative, 0 for (0, 0)
math_gcd(m, n) == igcd(Abs(m), Abs(n))

RationalAsRatio(s) == <<s.numerator, s.denominator>>

\* Rational.simplify
RationalSimplify(s) ==
    LET gg == math_gcd(s.numerator, s.denominator)
    IN  IF gg = 0 THEN s
        ELSE Rational(PyFloorDiv(s.numerator, gg),
                      PyFloorDiv(s.denominator, gg))

\* Rational.__eq__ for another Rational (is_rational(other) holds)
RationalEq(s, o) ==
    IF (s.denominator = 0) # (o.denominator = 0) THEN FALSE
    ELSE IF (s.numerator = 0) # (o.numerator = 0) THEN FALSE
    ELSE s.numerator * o.denominator = o.numerator * s.denominator

\* Rational.__hash__
RationalHash(s) == PyHashTuple(RationalAsRatio(RationalSimplify(s)))

(***************************************************************************)
(* IntPoly, algebra/nt/intpoly.py                                          *)
(***************************************************************************)
\* sq[:e] of Python: a negative e counts from the end
PySliceTo(sq, e) ==
    LET last == IF e < 0
                THEN (IF Len(sq) + e < 0 THEN 0 ELSE Len(sq) + e)
                ELSE Min(e, Len(sq))
    IN  SubSeq(sq, 1, last)

\* next((len(coefficients)-i for i, c in
\*       enumerate(reversed(coefficients)) if c), -1):
\* i counts from the last coefficient, the first nonzero one decides,
\* and -1 is the value when there is none
IntPolyEnd(sq) ==
    LET hits == {k \in 0..(Len(sq) - 1) : sq[Len(sq) - k] # 0}
    IN  IF hits = {} THEN 0 - 1
        ELSE Len(sq) - (CHOOSE k \in hits : \A j \in hits : k <= j)

\* IntPoly.__init__
IntPoly(sq) == [coeffs |-> PySliceTo(sq, IntPolyEnd(sq))]

\* IntPoly.__len__ and IntPoly.degree
IntPolyLen(pr) == Len(pr.coeffs)
IntPolyDegree(pr) == IntPolyLen(pr) - 1

\* IntPoly.__eq__ with a tuple as the other operand
IntPolyEqTuple(pr, t) == pr.coeffs = t

\* IntPoly.__eq__ with an IntPoly as the other operand: the tuple
\* self.coeffs does not know IntPoly, so the comparison is answered by
\* the reflected other.__eq__(self.coeffs)
IntPolyEq(pr, o) == IntPolyEqTuple(o, pr.coeffs)

\* IntPoly.__hash__
IntPolyHash(pr) == PyHashTuple(pr.coeffs)

(***************************************************************************)
(* The machines                                                            *)
(***************************************************************************)
EgcdIdle ==
    /\ pc = "idle" /\ a = 0 /\ b = 0 /\ c = 0
    /\ u = <<0, 0, 0>> /\ v = <<0, 0, 0>> /\ dxy = <<0, 0, 0>>
    /\ ret = NoneValue

GcdIdle ==
    /\ gpc = "idle" /\ module = "algebra/fraction.py" /\ values = <<>>
    /\ g = 0 /\ i = 0 /\ gret = Returned(0)

FracIdle ==
    /\ fpc = "idle"
    /\ f1 = Fraction(0, 0) /\ f2 = Fraction(0, 0) /\ f3 = Fraction(0, 0)
    /\ eq = [ff |-> FALSE, fg |-> FALSE, gf |-> FALSE, gh |-> FALSE,
             fh |-> FALSE]

OpsIdle ==
    /\ opc = "idle" /\ omodule = "algebra/fraction.py"
    /\ self = Fraction(0, 0) /\ other = IntOperand(0)
    /\ op = "none" /\ ores = ReturnedFraction(Fraction(0, 0))

ProdIdle ==
    /\ ppc = "idle" /\ prod = Product(<<>>) /\ rhs = NoLength
    /\ pres = NotImplemented

BgcdIdle ==
    /\ bpc = "idle" /\ bfun = "_ibgcd" /\ ba = 0 /\ bb = 0
    /\ ca = 0 /\ cb = 0 /\ sa = 0 /\ sb = 0 /\ bret = Returned(0)

RatIdle ==
    /\ rpc = "idle" /\ rat1 = Rational(0, 0) /\ rat2 = Rational(0, 0)
    /\ req = FALSE /\ rhashes = <<<<0, 0>>, <<0, 0>>>>

PolyIdle ==
    /\ qpc = "idle" /\ coefficients = <<>> /\ padded = <<>>
    /\ poly = IntPoly(<<>>) /\ padpoly = IntPoly(<<>>)
    /\ cmp = [eq |-> FALSE, degree |-> 0, paddegree |-> 0, hasheq |-> FALSE]

\* ---- solve_linear(a, b, c) and the egcd(a, b) it calls ----
InitEgcd ==
    /\ pc = "call" /\ a \in Ints /\ b \in Ints /\ c \in Ints
    /\ u = <<0, 0, 0>> /\ v = <<0, 0, 0>> /\ dxy = <<0, 0, 0>>
    /\ ret = NoneValue
    /\ GcdIdle /\ FracIdle /\ OpsIdle /\ ProdIdle /\ BgcdIdle
    /\ RatIdle /\ PolyIdle

\* egcd.py lines 17-18
EgcdEnter ==
    /\ pc = "call"
    /\ u' = <<a, 1, 0>>
    /\ v' = <<b, 0, 1>>
    /\ pc' = "loop"
    /\ UNCHANGED <<a, b, c, dxy, ret, notEgcdVars>>

\* The iteration with u instead of the remainder r in the new v.
EgcdIterKeepsDividend ==
    /\ pc = "loop"
    /\ v[1] # 0
    /\ LET q == PyFloorDiv(u[1], v[1])
       IN  /\ u' = v
           /\ v' = <<u[1], u[2] - q * v[2], u[3] - q * v[3]>>
    /\ UNCHANGED <<pc, a, b, c, dxy, ret, notEgcdVars>>

\* egcd.py lines 19-26, one iteration
EgcdIter ==
    /\ pc = "loop"
    /\ v[1] # 0
    /\ LET n == EgcdBody(u, v) IN u' = n[1] /\ v' = n[2]
    /\ UNCHANGED <<pc, a, b, c, dxy, ret, notEgcdVars>>

\* egcd.py line 29 and diaphontine.py line 9
EgcdReturn ==
    /\ pc = "loop"
    /\ v[1] = 0
    /\ dxy' = <<u[1], u[2], u[3]>>
    /\ pc' = "returned"
    /\ UNCHANGED <<a, b, c, u, v, ret, notEgcdVars>>

\* diaphontine.py lines 10-13
SolveLinearFinish ==
    /\ pc = "returned"
    /\ ret' = SolveLinearTail(dxy, c)
    /\ pc' = "done"
    /\ UNCHANGED <<a, b, c, u, v, dxy, notEgcdVars>>

\* diaphontine.py lines 7-13, the call as a whole
SolveLinearCall ==
    /\ pc = "call"
    /\ dxy' = egcd(a, b)
    /\ ret' = solve_linear(a, b, c)
    /\ pc' = "done"
    /\ UNCHANGED <<a, b, c, u, v, notEgcdVars>>

NextEgcd ==
    \/ EgcdEnter
    \/ EgcdIter
    \/ EgcdReturn
    \/ SolveLinearFinish
    \/ SolveLinearCall

SpecEgcd == InitEgcd /\ [][NextEgcd]_vars

\* A call that has started runs on: the interpreter takes the next step
\* of a sequential program whenever there is one.
SpecEgcdFair == SpecEgcd /\ WF_vars(NextEgcd)

\* ---- gcd over a tuple of operands ----
RECURSIVE SeqsUpTo(_)
SeqsUpTo(n) ==
    IF n = 0 THEN {<<>>}
    ELSE LET shorter == SeqsUpTo(n - 1)
         IN  shorter \cup {Append(sq, x) : sq \in shorter, x \in Ints}

InitGcd ==
    /\ gpc = "call" /\ module \in Modules /\ values \in SeqsUpTo(MaxArgs)
    /\ g = 0 /\ i = 0 /\ gret = Returned(0)
    /\ EgcdIdle /\ FracIdle /\ OpsIdle /\ ProdIdle /\ BgcdIdle
    /\ RatIdle /\ PolyIdle

\* if not values
GcdEmpty ==
    /\ gpc = "call"
    /\ values = <<>>
    /\ gret' = GcdNoValues(module)
    /\ gpc' = "done"
    /\ UNCHANGED <<module, values, g, i, notGcdVars>>

\* if len(values) == 2
GcdBinary ==
    /\ gpc = "call"
    /\ Len(values) = 2
    /\ gret' = Returned(Gcd2Loop(values[1], values[2]))
    /\ gpc' = "done"
    /\ UNCHANGED <<module, values, g, i, notGcdVars>>

\* g = values[0]
GcdFoldStart ==
    /\ gpc = "call"
    /\ values # <<>>
    /\ Len(values) # 2
    /\ g' = values[1]
    /\ i' = 2
    /\ gpc' = "fold"
    /\ UNCHANGED <<module, values, gret, notGcdVars>>

\* for value in values[1:]: g = gcd(g, value)
GcdFoldStep ==
    /\ gpc = "fold"
    /\ i <= Len(values)
    /\ g' = gcd(<<g, values[i]>>, module).val
    /\ i' = i + 1
    /\ UNCHANGED <<gpc, module, values, gret, notGcdVars>>

\* return g
GcdFoldReturn ==
    /\ gpc = "fold"
    /\ i > Len(values)
    /\ gret' = Returned(g)
    /\ gpc' = "done"
    /\ UNCHANGED <<module, values, g, i, notGcdVars>>

NextGcd ==
    \/ GcdEmpty
    \/ GcdBinary
    \/ GcdFoldStart
    \/ GcdFoldStep
    \/ GcdFoldReturn

SpecGcd == InitGcd /\ [][NextGcd]_vars

\* ---- comparisons of three Fractions ----
Fractions == {Fraction(n, d) : n \in Fields, d \in Fields}

InitFrac ==
    /\ fpc = "call"
    /\ f1 \in Fractions /\ f2 \in Fractions /\ f3 \in Fractions
    /\ eq = [ff |-> FALSE, fg |-> FALSE, gf |-> FALSE, gh |-> FALSE,
             fh |-> FALSE]
    /\ EgcdIdle /\ GcdIdle /\ OpsIdle /\ ProdIdle /\ BgcdIdle
    /\ RatIdle /\ PolyIdle

\* f1 == f1, f1 == f2, f2 == f1, f2 == f3, f1 == f3
FractionCompare ==
    /\ fpc = "call"
    /\ eq' = [ff |-> FractionEq(f1, f1), fg |-> FractionEq(f1, f2),
              gf |-> FractionEq(f2, f1), gh |-> FractionEq(f2, f3),
              fh |-> FractionEq(f1, f3)]
    /\ fpc' = "done"
    /\ UNCHANGED <<f1, f2, f3, notFracVars>>

NextFrac ==
    \/ FractionCompare

SpecFrac == InitFrac /\ [][NextFrac]_vars

\* ---- one method call on a Fraction ----
Operands ==
    {FractionOperand(s) : s \in Fractions}
        \cup {IntOperand(k) : k \in Fields}
        \cup {BareOperand(k) : k \in Fields}

InitOps ==
    /\ opc = "call" /\ omodule \in Modules
    /\ self \in Fractions /\ other \in Operands
    /\ op = "none" /\ ores = ReturnedFraction(Fraction(0, 0))
    /\ EgcdIdle /\ GcdIdle /\ FracIdle /\ ProdIdle /\ BgcdIdle
    /\ RatIdle /\ PolyIdle

\* self.simplify()
CallSimplify ==
    /\ opc = "call"
    /\ op' = "simplify"
    /\ ores' = ReturnedFraction(simplify(self))
    /\ opc' = "done"
    /\ UNCHANGED <<omodule, self, other, notOpsVars>>

\* hash(self)
CallHash ==
    /\ opc = "call"
    /\ op' = "__hash__"
    /\ ores' = FractionHash(self, omodule)
    /\ opc' = "done"
    /\ UNCHANGED <<omodule, self, other, notOpsVars>>

\* self.__add__(other)
CallAdd ==
    /\ opc = "call"
    /\ op' = "__add__"
    /\ ores' = FractionAdd(self, other)
    /\ opc' = "done"
    /\ UNCHANGED <<omodule, self, other, notOpsVars>>

\* self.__radd__(other)
CallRadd ==
    /\ opc = "call"
    /\ op' = "__radd__"
    /\ ores' = FractionRadd(self, other)
    /\ opc' = "done"
    /\ UNCHANGED <<omodule, self, other, notOpsVars>>

\* self.__mul__(other)
CallMul ==
    /\ opc = "call"
    /\ op' = "__mul__"
    /\ ores' = FractionMul(self, other)
    /\ opc' = "done"
    /\ UNCHANGED <<omodule, self, other, notOpsVars>>

\* self.__sub__(other)
CallSub ==
    /\ opc = "call"
    /\ op' = "__sub__"
    /\ ores' = FractionSub(self, other)
    /\ opc' = "done"
    /\ UNCHANGED <<omodule, self, other, notOpsVars>>

\* self.__truediv__(other)
CallTruediv ==
    /\ opc = "call"
    /\ op' = "__truediv__"
    /\ ores' = FractionTruediv(self, other)
    /\ opc' = "done"
    /\ UNCHANGED <<omodule, self, other, notOpsVars>>

NextOps ==
    \/ CallSimplify
    \/ CallHash
    \/ CallAdd
    \/ CallRadd
    \/ CallMul
    \/ CallSub
    \/ CallTruediv

SpecOps == InitOps /\ [][NextOps]_vars

\* ---- Product.__add__ ----
Elems ==
    {IntElem(n) : n \in 0..MaxElem}
        \cup {StrElem(sq) : sq \in {<<>>, <<"a">>, <<"b", "c">>}}

RECURSIVE TuplesUpTo(_)
TuplesUpTo(n) ==
    IF n = 0 THEN {<<>>}
    ELSE LET shorter == TuplesUpTo(n - 1)
         IN  shorter \cup {Append(sq, e) : sq \in shorter, e \in Elems}

InitProd ==
    /\ ppc = "call"
    /\ prod \in {Product(t) : t \in TuplesUpTo(MaxLen)}
    /\ rhs \in {Product(t) : t \in TuplesUpTo(MaxLen)}
                \cup {PlainTuple(t) : t \in TuplesUpTo(MaxLen)}
                \cup {NoLength}
    /\ pres = NotImplemented
    /\ EgcdIdle /\ GcdIdle /\ FracIdle /\ OpsIdle /\ BgcdIdle
    /\ RatIdle /\ PolyIdle

\* prod.__add__(rhs)
CallProductAdd ==
    /\ ppc = "call"
    /\ pres' = ProductAdd(prod, rhs)
    /\ ppc' = "done"
    /\ UNCHANGED <<prod, rhs, notProdVars>>

NextProd ==
    \/ CallProductAdd

SpecProd == InitProd /\ [][NextProd]_vars

\* ---- _ibgcd(ba, bb) and _rbgcd(ba, bb) ----
InitBgcd ==
    /\ bpc = "call" /\ bfun \in {"_ibgcd", "_rbgcd"}
    /\ ba \in BinInts /\ bb \in BinInts
    /\ ca = 0 /\ cb = 0 /\ sa = 0 /\ sb = 0 /\ bret = Returned(0)
    /\ EgcdIdle /\ GcdIdle /\ FracIdle /\ OpsIdle /\ ProdIdle
    /\ RatIdle /\ PolyIdle

\* egcd.py lines 107-113 and 119-125: the zero cases, and the removal of
\* the factors of two
BinaryEnter ==
    /\ bpc = "call"
    /\ IF ba = 0
       THEN /\ bret' = Returned(bb) /\ bpc' = "done"
            /\ UNCHANGED <<ca, cb, sa, sb>>
       ELSE IF bb = 0
       THEN /\ bret' = Returned(ba) /\ bpc' = "done"
            /\ UNCHANGED <<ca, cb, sa, sb>>
       ELSE /\ sa' = v2(ba) /\ sb' = v2(bb)
            /\ ca' = PyShr(ba, v2(ba)) /\ cb' = PyShr(bb, v2(bb))
            /\ bpc' = IF bfun = "_ibgcd" THEN "loop" ELSE "helper"
            /\ UNCHANGED bret
    /\ UNCHANGED <<bfun, ba, bb, notBgcdVars>>

\* egcd.py lines 126-132, one iteration of _ibgcd's loop
IbgcdIter ==
    /\ bpc = "loop"
    /\ LET hi == IF ca < cb THEN cb ELSE ca
           lo == IF ca < cb THEN ca ELSE cb
           diff == hi - lo
       IN  /\ cb' = lo
           /\ IF diff = 0
              THEN /\ ca' = diff
                   /\ bret' = Returned(BinaryGcdScale(lo, sa, sb))
                   /\ bpc' = "done"
              ELSE /\ ca' = PyShr(diff, v2(diff))
                   /\ UNCHANGED <<bret, bpc>>
    /\ UNCHANGED <<bfun, ba, bb, sa, sb, notBgcdVars>>

\* egcd.py lines 98-106 and 114, one call of _rbgcd's helper: a failed
\* assertion ends the call, b == 0 returns a through the pending calls
\* to line 114, anything else is the next call of helper.  (A chain of
\* calls that never ends is ended by the interpreter's RecursionError.)
RbgcdHelper ==
    /\ bpc = "helper"
    /\ IF PyMod(ca, 2) = 0 \/ PyMod(cb, 2) = 0
       THEN /\ bret' = Raised("AssertionError") /\ bpc' = "done"
            /\ UNCHANGED <<ca, cb>>
       ELSE LET hi == IF ca < cb THEN cb ELSE ca
                lo == IF ca < cb THEN ca ELSE cb
                diff == hi - lo
            IN  /\ ca' = lo
                /\ IF diff = 0
                   THEN /\ cb' = diff
                        /\ bret' = Returned(BinaryGcdScale(lo, sa, sb))
                        /\ bpc' = "done"
                   ELSE /\ cb' = PyShr(diff, v2(diff))
                        /\ UNCHANGED <<bret, bpc>>
    /\ UNCHANGED <<bfun, ba, bb, sa, sb, notBgcdVars>>

NextBgcd ==
    \/ BinaryEnter
    \/ IbgcdIter
    \/ RbgcdHelper

SpecBgcd == InitBgcd /\ [][NextBgcd]_vars

\* A call that can take a step takes it: the interpreter keeps running the
\* loop of egcd.py lines 126-132 and the calls of helper.
SpecBgcdFair == SpecBgcd /\ WF_vars(NextBgcd)

\* ---- rat1 == rat2, then hash(rat1) and hash(rat2) ----
Rationals == {Rational(n, d) : n \in Fields, d \in Fields}

InitRat ==
    /\ rpc = "call"
    /\ rat1 \in Rationals /\ rat2 \in Rationals
    /\ req = FALSE /\ rhashes = <<<<0, 0>>, <<0, 0>>>>
    /\ EgcdIdle /\ GcdIdle /\ FracIdle /\ OpsIdle /\ ProdIdle /\ BgcdIdle
    /\ PolyIdle

\* rat1 == rat2
RationalCompare ==
    /\ rpc = "call"
    /\ req' = RationalEq(rat1, rat2)
    /\ rpc' = "compared"
    /\ UNCHANGED <<rat1, rat2, rhashes, notRatVars>>

\* hash(rat1), hash(rat2)
RationalHashBoth ==
    /\ rpc = "compared"
    /\ rhashes' = <<RationalHash(rat1), RationalHash(rat2)>>
    /\ rpc' = "done"
    /\ UNCHANGED <<rat1, rat2, req, notRatVars>>

NextRat ==
    \/ RationalCompare
    \/ RationalHashBoth

SpecRat == InitRat /\ [][NextRat]_vars

\* ---- IntPoly(*coefficients) and IntPoly(*padded) ----
RECURSIVE CoeffSeqsUpTo(_)
CoeffSeqsUpTo(n) ==
    IF n = 0 THEN {<<>>}
    ELSE LET shorter == CoeffSeqsUpTo(n - 1)
         IN  shorter \cup {Append(sq, k) : sq \in shorter, k \in Coeffs}

Zeros(n) == [j \in 1..n |-> 0]

InitPoly ==
    /\ qpc = "call"
    /\ coefficients \in CoeffSeqsUpTo(MaxTerms)
    /\ padded \in {coefficients \o Zeros(k) : k \in 0..MaxPad}
    /\ poly = IntPoly(<<>>) /\ padpoly = IntPoly(<<>>)
    /\ cmp = [eq |-> FALSE, degree |-> 0, paddegree |-> 0, hasheq |-> FALSE]
    /\ EgcdIdle /\ GcdIdle /\ FracIdle /\ OpsIdle /\ ProdIdle /\ BgcdIdle
    /\ RatIdle

\* poly = IntPoly(*coefficients)
IntPolyConstruct ==
    /\ qpc = "call"
    /\ poly' = IntPoly(coefficients)
    /\ qpc' = "built"
    /\ UNCHANGED <<coefficients, padded, padpoly, cmp, notPolyVars>>

\* padpoly = IntPoly(*padded)
IntPolyConstructPadded ==
    /\ qpc = "built"
    /\ padpoly' = IntPoly(padded)
    /\ qpc' = "both"
    /\ UNCHANGED <<coefficients, padded, poly, cmp, notPolyVars>>

\* poly == padpoly, poly.degree(), padpoly.degree(),
\* hash(poly) == hash(padpoly)
IntPolyCompare ==
    /\ qpc = "both"
    /\ cmp' = [eq |-> IntPolyEq(poly, padpoly),
               degree |-> IntPolyDegree(poly),
               paddegree |-> IntPolyDegree(padpoly),
               hasheq |-> IntPolyHash(poly) = IntPolyHash(padpoly)]
    /\ qpc' = "done"
    /\ UNCHANGED <<coefficients, padded, poly, padpoly, notPolyVars>>

NextPoly ==
    \/ IntPolyConstruct
    \/ IntPolyConstructPadded
    \/ IntPolyCompare

SpecPoly == InitPoly /\ [][NextPoly]_vars

\* ---- the machines together ----
Init ==
    \/ InitEgcd \/ InitGcd \/ InitFrac \/ InitOps \/ InitProd \/ InitBgcd
    \/ InitRat \/ InitPoly

Next ==
    \/ NextEgcd \/ NextGcd \/ NextFrac \/ NextOps \/ NextProd \/ NextBgcd
    \/ NextRat \/ NextPoly

Spec == Init /\ [][Next]_vars

(***************************************************************************)
(* Properties                                                              *)
(***************************************************************************)
Permutations3(sq) ==
    {<<sq[p[1]], sq[p[2]], sq[p[3]]>> :
        p \in {q \in [1..3 -> 1..3] : \A j, k \in 1..3 : q[j] = q[k] => j = k}}

\* C1: egcd keeps a*u1 + b*u2 = u and a*v1 + b*v2 = v when the loop is
\* entered and after every iteration, for a and b of any sign, and the
\* triple (d, x, y) it returns satisfies a*x + b*y = d.
C1_EgcdInvariants ==
    /\ pc = "loop" =>
          /\ a * u[2] + b * u[3] = u[1]
          /\ a * v[2] + b * v[3] = v[1]
    /\ pc \in {"returned", "done"} => a * dxy[2] + b * dxy[3] = dxy[1]

C1_Witness ==
    /\ pc = "loop" /\ a < 0 /\ b > 0
    /\ u # <<a, 1, 0>> /\ v[1] # 0 /\ v[2] # 0 /\ v[3] # 0

\* C2: the first component of the triple egcd(a, b) returns is the value
\* the two-operand gcd(a, b) of either fraction module returns.
C2_EgcdAgreesWithGcd ==
    pc \in {"returned", "done"} =>
        \A m \in Modules : gcd(<<a, b>>, m) = Returned(dxy[1])

C2_Witness ==
    /\ pc = "returned" /\ a = 0 - 4 /\ b = 3 /\ dxy[1] = 1

\* C3: the two-operand gcd returns a non-negative value, gcd(a, 0) is
\* abs(a) and gcd(0, 0) is 0.
C3_GcdNonNegative ==
    (gpc = "done" /\ Len(values) = 2) =>
        /\ gret.exc = "none"
        /\ gret.val >= 0
        /\ values[2] = 0 => gret.val = Abs(values[1])

\* C4: gcd(a, b) equals gcd(b, a), for operands of any sign.
C4_GcdCommutes ==
    (gpc = "done" /\ Len(values) = 2) =>
        gret = gcd(<<values[2], values[1]>>, module)

\* C5: the variadic gcd of three operands returns the same value for
\* every order of the operands.
C5_GcdOrderIndependent ==
    (gpc = "done" /\ Len(values) = 3) =>
        \A p \in Permutations3(values) : gcd(p, module) = gret

\* C6: a pair (x, y) returned by solve_linear(a, b, c) satisfies
\* a*x + b*y = c, also when egcd returned a negative d.
C6_SolveLinearSolves ==
    (pc = "done" /\ ret.kind = "pair") => a * ret.x + b * ret.y = c

C6_Witness ==
    /\ pc = "done" /\ ret.kind = "pair" /\ dxy[1] < 0 /\ c > 0
    /\ a # 0 /\ b # 0

\* C7: for a and b not both zero, solve_linear(a, b, c) returns None
\* exactly when c is not a multiple of gcd(a, b), and a pair otherwise.
C7_SolveLinearNoneIffNotMultiple ==
    (pc = "done" /\ (a # 0 \/ b # 0)) =>
        LET d == gcd(<<a, b>>, "src/algebra/fraction.py").val
        IN  /\ d # 0
            /\ ret.kind = "None" <=> PyMod(c, d) # 0
            /\ ret.kind = "pair" <=> PyMod(c, d) = 0

C7_Witness ==
    /\ pc = "done" /\ ret.kind = "None" /\ a > 0 /\ b < 0 /\ c # 0
    /\ u[1] = dxy[1]

\* C8: solve_linear(0, 0, 0) returns (0, 0) and solve_linear(0, 0, c)
\* with c nonzero fails with an invalid-argument error; neither divides
\* by the zero gcd.
C8_SolveLinearZeroZero ==
    (pc = "done" /\ a = 0 /\ b = 0) =>
        IF c = 0 THEN ret = Pair(0, 0) ELSE ret.kind = "ValueError"

C10_FractionEqEquivalence ==
    fpc = "done" =>
        /\ eq.ff
        /\ eq.fg = eq.gf
        /\ (eq.fg /\ eq.gh) => eq.fh
        /\ f1 = Fraction(0, 0) => (eq.fg <=> f2 = Fraction(0, 0))
        /\ (/\ f1.denominator = 0 /\ f2.denominator = 0
            /\ f1.numerator # 0 /\ f2.numerator # 0) => eq.fg
        /\ (f1.denominator = 0) # (f2.denominator = 0) => ~eq.fg

C10_Witness ==
    /\ fpc = "done"
    /\ f1 = Fraction(1, 0) /\ f2 = Fraction(0 - 2, 0) /\ f3 = Fraction(0, 0)
    /\ eq.fg /\ eq.gf /\ ~eq.gh /\ ~eq.fh

Coprime(m, n) ==
    \A k \in 2..(Abs(m) + Abs(n)) : ~(m % k = 0 /\ n % k = 0)

\* other as a Fraction, when it is one
OtherFraction == Fraction(other.numerator, other.denominator)

\* C11: in src/algebra/fraction.py Fractions that compare equal have the
\* same simplified ratio, and therefore the same hash.
C11_EqualFractionsHashEqually ==
    (/\ opc = "done" /\ op = "__hash__"
     /\ omodule = "src/algebra/fraction.py"
     /\ other.kind = "Fraction" /\ FractionEq(self, OtherFraction)) =>
        /\ as_ratio(simplify(self)) = as_ratio(simplify(OtherFraction))
        /\ ores.exc = "none"
        /\ FractionHash(OtherFraction, omodule) = ores

C11_Witness ==
    /\ opc = "done" /\ op = "__hash__"
    /\ omodule = "src/algebra/fraction.py"
    /\ self = Fraction(1, 0 - 2) /\ other = FractionOperand(Fraction(0 - 1, 2))
    /\ ores = ReturnedHash(<<0 - 2, 2>>)

\* C12: Fraction.__hash__ of algebra/fraction.py returns the hash of the
\* simplified (numerator, denominator) pair for every Fraction.
C12_HashNeverFails ==
    (opc = "done" /\ op = "__hash__" /\ omodule = "algebra/fraction.py") =>
        ores = ReturnedHash(PyHashTuple(as_ratio(simplify(self))))

\* C13: simplify is idempotent: simplifying the result of simplify gives
\* the same numerator and denominator, hence an equal Fraction.
C13_SimplifyIdempotent ==
    (opc = "done" /\ op = "simplify") =>
        /\ simplify(ores.val) = ores.val
        /\ FractionEq(simplify(ores.val), ores.val)

C13_Witness ==
    /\ opc = "done" /\ op = "simplify"
    /\ self = Fraction(2, 0 - 2) /\ ores.val = Fraction(0 - 1, 1)

\* C14: simplify never fails and returns a canonical representative equal
\* to its input: the gcd is zero only for 0/0, which is returned
\* unchanged; every n/0 with n nonzero gives the same representative; for
\* a nonzero denominator the result has a positive denominator and
\* coprime fields.
C14_SimplifyCanonical ==
    (opc = "done" /\ op = "simplify") =>
        /\ ores.exc = "none"
        /\ FractionEq(ores.val, self)
        /\ Gcd2Loop(self.numerator, self.denominator) = 0
              <=> self = Fraction(0, 0)
        /\ self = Fraction(0, 0) => ores.val = self
        /\ (self.denominator = 0 /\ self.numerator # 0) =>
              \A n \in Fields \ {0} : simplify(Fraction(n, 0)) = ores.val
        /\ self.denominator # 0 =>
              /\ ores.val.denominator > 0
              /\ Coprime(ores.val.numerator, ores.val.denominator)
        /\ simplify(Fraction(16, 8)) = Fraction(2, 1)

C14_Witness ==
    /\ opc = "done" /\ op = "simplify"
    /\ self = Fraction(0 - 2, 0) /\ ores.val = Fraction(1, 0)

\* C15: the sum and the product of a/b and c/d (an int k being k/1) are
\* the unsimplified Fractions (a*d + c*b)/(b*d) and (a*c)/(b*d).
C15_AddMulCrossMultiply ==
    (opc = "done" /\ other.kind \in {"Fraction", "int"}) =>
        LET cc == IF other.kind = "int" THEN other.value
                  ELSE other.numerator
            dd == IF other.kind = "int" THEN 1 ELSE other.denominator
        IN  /\ op = "__add__" =>
                  ores = ReturnedFraction(
                      Fraction(self.numerator * dd + cc * self.denominator,
                               self.denominator * dd))
            /\ op = "__mul__" =>
                  ores = ReturnedFraction(
                      Fraction(self.numerator * cc, self.denominator * dd))
            /\ (op = "__add__" /\ self = Fraction(1, 2)
                  /\ other = FractionOperand(Fraction(1, 2))) =>
                  ores.val = Fraction(4, 4)
            /\ FractionEq(FractionAdd(Fraction(1, 2),
                                      FractionOperand(Fraction(1, 3))).val,
                          Fraction(5, 6))

C15_Witness ==
    /\ opc = "done" /\ op = "__add__"
    /\ self = Fraction(1, 2) /\ other = FractionOperand(Fraction(1, 2))
    /\ ores.val = Fraction(4, 4)

\* C16: a/b - c/d is (a*d - c*b)/(b*d) and (a/b) / (c/d) is (a*d)/(b*c);
\* dividing by a Fraction with a zero numerator does not fail and gives a
\* zero denominator.
C16_SubDivByNegationInversion ==
    (opc = "done" /\ other.kind = "Fraction") =>
        /\ op = "__sub__" =>
              ores = ReturnedFraction(
                  Fraction(self.numerator * other.denominator
                           - other.numerator * self.denominator,
                           self.denominator * other.denominator))
        /\ op = "__truediv__" =>
              /\ ores = ReturnedFraction(
                     Fraction(self.numerator * other.denominator,
                              self.denominator * other.numerator))
              /\ other.numerator = 0 => ores.val.denominator = 0

C16_Witness ==
    /\ opc = "done" /\ op = "__truediv__"
    /\ self = Fraction(1, 2) /\ other = FractionOperand(Fraction(0, 2))
    /\ ores = ReturnedFraction(Fraction(2, 0))

\* C17: Fraction(n, d) + k for a bare ring element k returns
\* Fraction(n + k*d, d), the fields of k + Fraction(n, d).
C17_AddBareElement ==
    (opc = "done" /\ op = "__add__" /\ other.kind = "bare") =>
        /\ ores = ReturnedFraction(
               Fraction(self.numerator + other.value * self.denominator,
                        self.denominator))
        /\ ores = FractionRadd(self, other)

\* 'abc' as the sequence of its characters, and so on
Str_abc == <<"a", "b", "c">>
Str_def == <<"d", "e", "f">>
Str_red == <<"r", "e", "d", " ">>
Str_car == <<"c", "a", "r">>

\* C18: for Products of equal length whose elements can be added, p + q
\* is the Product of the sums p[i] + q[i]; len(Product(...)) is the
\* number of arguments; an operand without a length or of another length
\* gives NotImplemented.
C18_ProductAddPointwise ==
    ppc = "done" =>
        /\ (/\ rhs.kind = "Product" /\ ProductLen(rhs) = ProductLen(prod)
            /\ \A j \in 1..ProductLen(prod) :
                  ElemAddable(prod.tuple[j], rhs.tuple[j])) =>
              /\ pres.kind = "Product"
              /\ ProductLen(pres) = ProductLen(prod)
              /\ \A j \in 1..ProductLen(prod) :
                    pres.tuple[j] = ElemAdd(prod.tuple[j], rhs.tuple[j])
        /\ (rhs.kind = "nolen" \/ Len(rhs.tuple) # ProductLen(prod)) =>
              pres = NotImplemented
        /\ ProductLen(Product(<<StrElem(Str_abc), StrElem(Str_def)>>)) = 2
        /\ ProductEq(ProductAdd(Product(<<StrElem(Str_abc), StrElem(Str_red)>>),
                                Product(<<StrElem(Str_def), StrElem(Str_car)>>)),
                     Product(<<StrElem(Str_abc \o Str_def),
                               StrElem(Str_red \o Str_car)>>))

C18_Witness ==
    /\ ppc = "done"
    /\ prod = Product(<<StrElem(<<"a">>), IntElem(1)>>)
    /\ rhs = Product(<<StrElem(<<"b", "c">>), IntElem(1)>>)
    /\ pres = Product(<<StrElem(<<"a", "b", "c">>), IntElem(2)>>)

\* C19: for non-negative a and b, _ibgcd(a, b) and _rbgcd(a, b) return
\* the first component of egcd(a, b), which is also _igcd(a, b), and the
\* operands of _rbgcd's helper are always odd.
C19_BinaryGcdAgrees ==
    (ba >= 0 /\ bb >= 0) =>
        /\ bpc = "done" =>
              /\ bret = Returned(egcd(ba, bb)[1])
              /\ bret = Returned(igcd(ba, bb))
        /\ bpc = "helper" => (PyMod(ca, 2) = 1 /\ PyMod(cb, 2) = 1)

C19_Witness ==
    /\ bpc = "done" /\ bfun = "_rbgcd" /\ ba = 12 /\ bb = 8
    /\ sa = 2 /\ sb = 3 /\ bret = Returned(4)

\* C20: the loop of egcd terminates for every a and b, of any sign: the
\* absolute value of v strictly decreases with every iteration, and the
\* loop is left with v = 0.
C20_EgcdTerminates ==
    /\ [][(pc = "loop" /\ pc' = "loop") => Abs(v'[1]) < Abs(v[1])]_vars
    /\ (pc = "loop") ~> (pc = "returned" /\ v[1] = 0)

C20_Witness ==
    /\ pc = "returned" /\ a = 3 /\ b = 0 - 4
    /\ v[1] = 0 /\ u[1] = 0 - 1 /\ u # <<a, 1, 0>>

\* C21: every call _ibgcd(a, b), for integers a and b of any sign, returns:
\* the loop entered at egcd.py line 126 is left through line 131.
C21_IbgcdTerminates ==
    (bfun = "_ibgcd" /\ bpc = "call") ~> (bfun = "_ibgcd" /\ bpc = "done")

\* C22: Rational hashing is consistent with Rational equality: whenever
\* r == s holds for two Rationals, r.simplify().as_ratio() equals
\* s.simplify().as_ratio() and hash(r) equals hash(s).
C22_EqualRationalsHashEqually ==
    (rpc = "done" /\ req) =>
        /\ RationalAsRatio(RationalSimplify(rat1))
              = RationalAsRatio(RationalSimplify(rat2))
        /\ rhashes[1] = rhashes[2]

\* C23: every IntPoly is in normal form after construction: coeffs is
\* empty or ends with a nonzero coefficient, also when all the given
\* coefficients are zero; two sequences that differ only by trailing zeros
\* build equal polynomials with equal hashes and equal degrees, and the
\* degree is len(coeffs) - 1.
C23_IntPolyNormalForm ==
    /\ qpc \in {"built", "both", "done"} =>
          \/ poly.coeffs = <<>>
          \/ poly.coeffs[Len(poly.coeffs)] # 0
    /\ qpc \in {"both", "done"} =>
          \/ padpoly.coeffs = <<>>
          \/ padpoly.coeffs[Len(padpoly.coeffs)] # 0
    /\ qpc = "done" =>
          /\ cmp.eq /\ cmp.hasheq
          /\ cmp.degree = cmp.paddegree
          /\ cmp.degree = Len(poly.coeffs) - 1

====
